---- MODULE Spec2Model ----
(***************************************************************************)
(* Model of the six-sigma web application: the SberProcess record and its  *)
(* computed metrics (app/main.py), the quality thresholds                  *)
(* (app/settings.py), the mode handlers Slacker / Plotter / Uploader and   *)
(* the field type aware equality of ComparableDump (app/tools.py).         *)
(*                                                                         *)
(* Python floats are modelled in decimal fixed point with 15 fractional    *)
(* digits: a finite float is the pair (hi, lo) standing for                *)
(* hi * 10^-6 + lo * 10^-15 with 0 <= lo < 10^9 (floor representation), so *)
(* that every number stays inside TLC's 32 bit integers.  An infinite      *)
(* float carries inf = 1 or inf = -1.                                      *)
(***************************************************************************)
EXTENDS Integers, Sequences, FiniteSets, TLC

\* ------------------------------------------------------------------------
\* Bounds of the model
\* ------------------------------------------------------------------------

\* tests is drawn from -1..MaxTests and a few large values
MaxTests == 4

\* the number of requests the service receives
NumReq == 2

\* the longest bulk request has MAX_P + Extra processes
Extra == 1

\* ------------------------------------------------------------------------
\* Python values
\* ------------------------------------------------------------------------

\* the number of lo units in one hi unit
P9 == 10^9

\* the number of hi units in 1.0
P6 == 10^6

PyInt(n) == [t |-> "int", inf |-> 0, hi |-> n, lo |-> 0, s |-> ""]

PyFloat(hi, lo) == [t |-> "float", inf |-> 0, hi |-> hi, lo |-> lo, s |-> ""]

PyInf(sign) == [t |-> "float", inf |-> sign, hi |-> 0, lo |-> 0, s |-> ""]

PyStr(str) == [t |-> "str", inf |-> 0, hi |-> 0, lo |-> 0, s |-> str]

PyNone == [t |-> "NoneType", inf |-> 0, hi |-> 0, lo |-> 0, s |-> ""]

\* a cached_property that was not accessed yet
Unset == [t |-> "unset", inf |-> 0, hi |-> 0, lo |-> 0, s |-> ""]

\* math.isinf(value)
isinf(x) == x.t = "float" /\ x.inf # 0

\* a < b on Python numbers (int or float)
NumLess(a, b) ==
    IF a.inf # 0 \/ b.inf # 0
    THEN \/ a.inf < b.inf
         \/ a.inf = 0 /\ b.inf = 1
         \/ a.inf = -1 /\ b.inf = 0
    ELSE LET ah == IF a.t = "int" THEN a.hi * P6 ELSE a.hi
             bh == IF b.t = "int" THEN b.hi * P6 ELSE b.hi
         IN  ah < bh \/ (ah = bh /\ a.lo < b.lo)

\* float(x) for x a float or one of the strings "-inf", "inf"
float(x) ==
    IF x.t = "str"
    THEN IF x.s = "-inf" THEN PyInf(-1) ELSE PyInf(1)
    ELSE x

\* ------------------------------------------------------------------------
\* app/settings.py
\* ------------------------------------------------------------------------

MAX_P == 10

DPI_BULK == 400

DPI_SINGLE == 600

\* the enumeration with YELLOW declared before RED
SigmaSupremum_yellow_first ==
    << [name |-> "YELLOW", value |-> PyFloat(4099999, 999999999)],
       [name |-> "RED",    value |-> PyFloat(2100000, 0)],
       [name |-> "GREEN",  value |-> PyInf(1)] >>

\* the members of the enumeration in definition order; 4.1 is the double
\* 4.09999999999999964..., whose floor at 15 digits is 4.099999999999999
SigmaSupremum ==
    << [name |-> "RED",    value |-> PyFloat(2100000, 0)],
       [name |-> "YELLOW", value |-> PyFloat(4099999, 999999999)],
       [name |-> "GREEN",  value |-> PyInf(1)] >>

\* ------------------------------------------------------------------------
\* app/tools.py: norm = stats.norm(LOC)
\* ------------------------------------------------------------------------

\* n decimal digits of r / d for 0 <= r < d, with the remainder
RECURSIVE FracDigits(_, _, _, _)
FracDigits(r, d, n, acc) ==
    IF n = 0 THEN <<acc, r>>
    ELSE FracDigits((r * 10) % d, d, n - 1, acc * 10 + ((r * 10) \div d))

\* fails / tests (true division) for 0 <= fails <= tests, tests > 0
TrueDiv(fails, tests) ==
    LET ip == fails \div tests
        a  == FracDigits(fails % tests, tests, 6, 0)
        b  == FracDigits(a[2], tests, 9, 0)
    IN  PyFloat(ip * P6 + a[1], b[1])

\* 1 - x for a float x in [0, 1]
OneMinus(x) ==
    IF x.lo = 0 THEN PyFloat(P6 - x.hi, 0)
    ELSE PyFloat(P6 - x.hi - 1, P9 - x.lo)

\* rows <<q.hi, q.lo, ppf.hi, ppf.lo>> of the percent point function of the
\* normal distribution with loc = 1.5 and scale = 1, at the probabilities
\* the inputs of the model produce
NormPpfTable ==
    { <<1, 0, -3253425, 691182910>>, <<10000, 0, -826348, 125959159>>,
      <<20000, 0, -553749, 89368177>>, <<166666, 666666667, 532578, 433898298>>,
      <<200000, 0, 658378, 766427085>>, <<250000, 0, 825510, 249803918>>,
      <<333333, 333333334, 1069272, 700704542>>, <<400000, 0, 1246652, 896864200>>,
      <<490000, 0, 1474931, 91741289>>, <<500000, 0, 1500000, 0>>,
      <<510000, 0, 1525068, 908258710>>, <<600000, 0, 1753347, 103135799>>,
      <<666666, 666666667, 1930727, 299295457>>, <<725746, 0, 2099997, 352388695>>,
      <<725747, 0, 2100000, 353365522>>, <<750000, 0, 2174489, 750196081>>,
      <<800000, 0, 2341621, 233572914>>, <<833333, 333333334, 2467421, 566101701>>,
      <<860000, 0, 2580319, 340814956>>, <<880000, 0, 2674986, 792066089>>,
      <<900000, 0, 2781551, 565544600>>, <<920000, 0, 2905071, 560309632>>,
      <<930000, 0, 2975791, 28179169>>, <<940000, 0, 3054773, 594596852>>,
      <<950000, 0, 3144853, 626951471>>, <<960000, 0, 3250686, 71252169>>,
      <<970000, 0, 3380793, 608151250>>, <<980000, 0, 3553748, 910631822>>,
      <<990000, 0, 3826347, 874040840>>, <<995338, 0, 4099940, 225647758>>,
      <<995339, 0, 4100013, 842857119>>, <<999900, 0, 5219016, 485455708>>,
      <<999901, 0, 5221554, 652450118>>, <<999949, 0, 5385784, 405692065>>,
      <<999950, 0, 5390591, 886413119>>, <<999951, 0, 5395491, 3209595>>,
      <<999975, 0, 5555626, 981121906>>, <<999993, 0, 5843861, 183166604>>,
      <<999994, 0, 5877587, 846694779>>, <<999995, 0, 5917173, 413467605>>,
      <<999996, 0, 5965183, 915584608>>, <<999997, 0, 6026389, 321395339>>,
      <<999998, 0, 6111382, 362308228>>, <<999999, 0, 6253424, 308817089>> }

\* norm.ppf(q).item(): -inf at 0, inf at 1, finite in between
norm_ppf(q) ==
    IF q.hi = 0 /\ q.lo = 0 THEN PyInf(-1)
    ELSE IF q.hi = P6 /\ q.lo = 0 THEN PyInf(1)
    ELSE LET row == CHOOSE r \in NormPpfTable : r[1] = q.hi /\ r[2] = q.lo
         IN  PyFloat(row[3], row[4])

\* ------------------------------------------------------------------------
\* app/main.py: class SberProcess
\* ------------------------------------------------------------------------

\* the request data of one process: tests and fails as sent, name a PyStr
\* or PyNone
RawProcess(tests, fails, name) == [tests |-> tests, fails |-> fails, name |-> name]

\* the per-field validation of PositiveInt and NonNegativeInt: the loc of
\* every offending field, in field order
FieldErrors(raw) ==
    (IF raw.tests > 0 THEN <<>> ELSE <<"tests">>)
        \o (IF raw.fails >= 0 THEN <<>> ELSE <<"fails">>)

\* a model validator that lets every record pass
prevent_nothing(raw) == [status |-> 200, kind |-> "ok", detail |-> "", fields |-> <<>>]

\* the outcome of the model validator, which runs after the fields passed
prevent_fails_greater_than_tests(raw) ==
    IF raw.fails > raw.tests
    THEN [status |-> 422, kind |-> "HTTPException",
          detail |-> "The number of fails can't be greater than the total number of tests",
          fields |-> <<>>]
    ELSE [status |-> 200, kind |-> "ok", detail |-> "", fields |-> <<>>]

\* the outcome of constructing SberProcess from the request data
Validate(raw) ==
    IF FieldErrors(raw) # <<>>
    THEN [status |-> 422, kind |-> "RequestValidationError", detail |-> "",
          fields |-> FieldErrors(raw)]
    ELSE prevent_fails_greater_than_tests(raw)

\* a constructed instance: the fields and the cached properties
SberProcess(raw) ==
    [tests |-> raw.tests, fails |-> raw.fails, name |-> raw.name,
     defect_rate |-> Unset, sigma |-> Unset, label |-> Unset]

defect_rate(self) == TrueDiv(self.fails, self.tests)

\* sigma without the replacement of the infinite values
sigma_raw(self) == norm_ppf(OneMinus(defect_rate(self)))

sigma(self) ==
    LET value == norm_ppf(OneMinus(defect_rate(self)))
    IN  IF isinf(value)
        THEN IF NumLess(value, PyFloat(0, 0)) THEN PyStr("-inf") ELSE PyStr("inf")
        ELSE value

\* the first member of the enumeration from position i on whose value
\* exceeds x, the last member when none does
RECURSIVE FirstSup(_, _)
FirstSup(x, i) ==
    IF i > Len(SigmaSupremum) THEN SigmaSupremum[Len(SigmaSupremum)].name
    ELSE IF NumLess(x, SigmaSupremum[i].value) THEN SigmaSupremum[i].name
    ELSE FirstSup(x, i + 1)

label(self) == PyStr(FirstSup(float(sigma(self)), 1))

\* access of a cached property: computed on the first access only
GetDefectRate(self) ==
    IF self.defect_rate = Unset
    THEN [self EXCEPT !.defect_rate = defect_rate(self)]
    ELSE self

GetSigma(self) ==
    IF self.sigma = Unset
    THEN [GetDefectRate(self) EXCEPT !.sigma = sigma(self)]
    ELSE self

GetLabel(self) ==
    IF self.label = Unset
    THEN [GetSigma(self) EXCEPT !.label = label(self)]
    ELSE self

\* process.model_dump(): the fields, then the computed fields
model_dump(self) ==
    LET p == GetLabel(GetSigma(GetDefectRate(self)))
    IN  [tests |-> PyInt(p.tests), fails |-> PyInt(p.fails), name |-> p.name,
         defect_rate |-> p.defect_rate, sigma |-> p.sigma, label |-> p.label]

\* ------------------------------------------------------------------------
\* State
\* ------------------------------------------------------------------------

VARIABLES
    reqs,       \* request -> the state of its task
    running,    \* the request whose task holds the event loop thread, 0 if none
    Gcf,        \* pyplot: the numbers of the open figures, the current one last
    figs,       \* pyplot: open figure number -> the figure
    bucket,     \* the objects stored in the bucket
    put_calls,  \* every put_object call made, in order
    uuids,      \* the number of uuid4() calls made
    workload,   \* the requests the run is made of: "concurrent" or "bulk"
    mproc,      \* metrics: the record under evaluation
    mstage,     \* metrics: "idle", "built", "rejected"
    eself,      \* equality: the left operand
    eother,     \* equality: the right operand
    eresult,    \* equality: the outcome of self == other
    tools,      \* startup: the objects bound in the namespace of app/tools.py
    members,    \* startup: inspect.getmembers(tools), <<>> before the call
    cursor,     \* startup: the member the comprehension visits next
    registry,   \* startup: the dict mode_handlers as built so far
    ModeArgs,   \* startup: the arguments of Literal[...], <<>> before
    boot        \* startup: "import", "comprehension", "serving"

svars == <<reqs, running, Gcf, figs, bucket, put_calls, uuids, workload>>

mvars == <<mproc, mstage>>

evars == <<eself, eother, eresult>>

bvars == <<tools, members, cursor, registry, ModeArgs, boot>>

vars == <<reqs, running, Gcf, figs, bucket, put_calls, uuids, workload,
          mproc, mstage, eself, eother, eresult,
          tools, members, cursor, registry, ModeArgs, boot>>

Requests == 1..NumReq

\* ------------------------------------------------------------------------
\* app/tools.py: the handlers
\* ------------------------------------------------------------------------

\* the subclasses of Handler as inspect.getmembers(tools) lists them
\* (sorted by name), with the mode each declares
HandlerClasses ==
    << [cls |-> "Plotter",  mode |-> "plot"],
       [cls |-> "Slacker",  mode |-> "data"],
       [cls |-> "Uploader", mode |-> "obs"] >>

\* the dict comprehension: a later class replaces an earlier one of the
\* same mode
mode_handlers ==
    [m \in {HandlerClasses[i].mode : i \in DOMAIN HandlerClasses} |->
        LET last == CHOOSE i \in DOMAIN HandlerClasses :
                        /\ HandlerClasses[i].mode = m
                        /\ \A j \in DOMAIN HandlerClasses :
                              HandlerClasses[j].mode = m => j <= i
        IN  HandlerClasses[last].cls]

Mode == DOMAIN mode_handlers

\* isinstance(handler, Plotter): Uploader extends Plotter
IsPlotter(cls) == cls \in {"Plotter", "Uploader"}

NoImage == [written |-> FALSE, fig |-> 0, owner |-> 0, panels |-> <<>>]

NoResult ==
    [kind |-> "none", keys |-> {}, records |-> <<>>, image |-> NoImage,
     dumps |-> <<>>, bucket |-> "", folder |-> 0, media_type |-> ""]

NoResponse == [status |-> 0, kind |-> "none", detail |-> "", fields |-> <<>>]

IdleRequest ==
    [pc |-> "idle", endpoint |-> "", mode |-> "", body |-> <<>>,
     process_list |-> <<>>, handler |-> "none", buffer |-> NoImage,
     dumps |-> <<>>, fig |-> 0, folder |-> 0, result |-> NoResult,
     returned |-> NoResult, response |-> NoResponse]

\* ------------------------------------------------------------------------
\* Evaluation of one record: construction, then the cached properties in
\* any order of access
\* ------------------------------------------------------------------------

TestsValues == (-1..MaxTests) \cup {50, 100, 1000000}

FailsValues ==
    (-1..(MaxTests + 1))
        \cup {25, 49, 50, 51, 99, 100, 4661, 4662, 274253, 274254, 999999, 1000000}

NameValues == {PyNone, PyStr("a")}

NoProcess == SberProcess(RawProcess(0, 0, PyNone))

MetricsInit ==
    /\ mproc = NoProcess
    /\ mstage = "idle"

\* SberProcess(tests=..., fails=..., name=...)
MConstruct(tests, fails, name) ==
    /\ mstage = "idle"
    /\ LET raw == RawProcess(tests, fails, name)
       IN  /\ mproc' = SberProcess(raw)
           /\ mstage' = IF Validate(raw).status = 200 THEN "built" ELSE "rejected"
    /\ UNCHANGED <<svars, evars, bvars>>

\* process.defect_rate
MDefectRate ==
    /\ mstage = "built"
    /\ mproc.defect_rate = Unset
    /\ mproc' = GetDefectRate(mproc)
    /\ UNCHANGED <<mstage, svars, evars, bvars>>

\* process.sigma
MSigma ==
    /\ mstage = "built"
    /\ mproc.sigma = Unset
    /\ mproc' = GetSigma(mproc)
    /\ UNCHANGED <<mstage, svars, evars, bvars>>

\* process.label
MLabel ==
    /\ mstage = "built"
    /\ mproc.label = Unset
    /\ mproc' = GetLabel(mproc)
    /\ UNCHANGED <<mstage, svars, evars, bvars>>

MetricsNext ==
    \/ \E tests \in TestsValues, fails \in FailsValues, name \in NameValues :
          MConstruct(tests, fails, name)
    \/ MDefectRate
    \/ MSigma
    \/ MLabel

\* ------------------------------------------------------------------------
\* The service: requests
\* ------------------------------------------------------------------------

\* json.dumps of one value: the literal written.  A float is written with
\* a fraction or exponent, an int without, so json.loads restores the type
json_literal(v) ==
    CASE v.t = "int"      -> [lit |-> "integer", inf |-> 0, hi |-> v.hi, lo |-> 0, s |-> ""]
      [] v.t = "float"    -> [lit |-> "real", inf |-> v.inf, hi |-> v.hi, lo |-> v.lo, s |-> ""]
      [] v.t = "str"      -> [lit |-> "string", inf |-> 0, hi |-> 0, lo |-> 0, s |-> v.s]
      [] v.t = "NoneType" -> [lit |-> "null", inf |-> 0, hi |-> 0, lo |-> 0, s |-> ""]

\* json.loads of one literal
json_value(l) ==
    CASE l.lit = "integer" -> PyInt(l.hi)
      [] l.lit = "real"    -> IF l.inf # 0 THEN PyInf(l.inf) ELSE PyFloat(l.hi, l.lo)
      [] l.lit = "string"  -> PyStr(l.s)
      [] l.lit = "null"    -> PyNone

\* json.dumps(self.dumps): every dump in order, every key of a dump
json_dumps(dumps) ==
    [i \in DOMAIN dumps |-> [k \in DOMAIN dumps[i] |-> json_literal(dumps[i][k])]]

\* json.loads of the text json_dumps wrote
json_loads(text) ==
    [i \in DOMAIN text |-> [k \in DOMAIN text[i] |-> json_value(text[i][k])]]

\* the processes the requests are made of
InHalf == RawProcess(50, 25, PyNone)

InNoFails == RawProcess(100, 0, PyStr("a"))

InTooManyFails == RawProcess(50, 51, PyNone)

InTooManyFailsNamed == RawProcess(50, 51, PyStr("a"))

InNoTests == RawProcess(0, 100, PyNone)

\* a name whose title is not valid mathtext: an unclosed group
InMathName == RawProcess(4, 1, PyStr("${$"))

\* n valid processes, each with a name of its own
LongBody(n) == [i \in 1..n |-> RawProcess(100, i % 4, PyStr(ToString(i)))]

\* the request data of the two workloads: NumReq requests of up to two
\* processes each, or one request of up to MAX_P + Extra processes
Bodies(load) ==
    IF load = "concurrent"
    THEN { <<>>, <<InHalf>>, <<InNoFails, InHalf>>, <<InTooManyFails>>,
           <<InMathName>> }
    ELSE { <<InNoFails>>, <<InTooManyFailsNamed>>, <<InNoTests>>,
           <<InNoTests, InTooManyFails>>, <<InNoTests, InHalf>>,
           <<InHalf, InTooManyFailsNamed>> }
            \cup { LongBody(n) : n \in (MAX_P - 1)..(MAX_P + Extra) }

Admitted(load) ==
    CASE load = "concurrent" -> Requests
      [] load = "bulk"       -> {1}
      [] OTHER               -> {}

\* the names a title cannot render
BadMathtext == {"${$"}

\* the loc of every field error of the items from position i on
RECURSIVE ListFieldErrors(_, _)
ListFieldErrors(body, i) ==
    IF i > Len(body) THEN <<>>
    ELSE FieldErrors(body[i]) \o ListFieldErrors(body, i + 1)

\* validation of the request data of an endpoint: every item is validated;
\* the HTTPException of the model validator leaves the validation at once,
\* field errors are collected into one error list
ValidateBody(body) ==
    IF \E i \in DOMAIN body :
          /\ FieldErrors(body[i]) = <<>>
          /\ prevent_fails_greater_than_tests(body[i]).status # 200
    THEN LET i == CHOOSE i \in DOMAIN body :
                      /\ FieldErrors(body[i]) = <<>>
                      /\ prevent_fails_greater_than_tests(body[i]).status # 200
         IN  prevent_fails_greater_than_tests(body[i])
    ELSE IF ListFieldErrors(body, 1) # <<>>
    THEN [status |-> 422, kind |-> "RequestValidationError", detail |-> "",
          fields |-> ListFieldErrors(body, 1)]
    ELSE [status |-> 200, kind |-> "ok", detail |-> "", fields |-> <<>>]

\* the endpoints as functions run in worker threads: any task may take its
\* next step at any time
MayRun_threads(r) == TRUE

\* the task of request r may take its next step: the endpoints are
\* coroutines of one event loop and nothing between entering one and
\* leaving it suspends, so a task starts when the loop is free and keeps
\* the loop until its endpoint returns or raises
MayRun(r) == IF reqs[r].pc = "ready" THEN running = 0 ELSE running = r

\* the outcome of an exception that leaves the endpoint
ServerError(exc) == [status |-> 500, kind |-> exc, detail |-> "", fields |-> <<>>]

ServiceInit ==
    /\ reqs = [r \in Requests |-> IdleRequest]
    /\ running = 0
    /\ Gcf = <<>>
    /\ figs = <<>>
    /\ bucket = {}
    /\ put_calls = <<>>
    /\ uuids = 0

\* a request arrives and its data is validated into SberProcess instances
Receive(r, endpoint, mode, body) ==
    /\ reqs[r].pc = "idle"
    /\ r \in Admitted(workload)
    /\ body \in Bodies(workload)
    /\ IF r = 1 THEN TRUE ELSE reqs[r - 1].pc # "idle"
    /\ endpoint = "single" => Len(body) = 1
    /\ LET v == ValidateBody(body)
       IN  reqs' = [reqs EXCEPT ![r] =
                [@ EXCEPT !.endpoint = endpoint, !.mode = mode, !.body = body,
                          !.pc = IF v.status = 200 THEN "ready" ELSE "done",
                          !.response = IF v.status = 200 THEN NoResponse ELSE v]]
    /\ UNCHANGED <<running, Gcf, figs, bucket, put_calls, uuids, workload, mvars, evars, bvars>>

\* single(mode, process): handle_request(mode, [process])
single(r) ==
    /\ MayRun(r)
    /\ reqs[r].pc = "ready"
    /\ reqs[r].endpoint = "single"
    /\ running' = r
    /\ reqs' = [reqs EXCEPT ![r] =
            [@ EXCEPT !.pc = "dispatch",
                      !.process_list = <<SberProcess(reqs[r].body[1])>>]]
    /\ UNCHANGED <<Gcf, figs, bucket, put_calls, uuids, workload, mvars, evars, bvars>>

\* the whole of process_bulk
Truncate_off(process_bulk) == process_bulk

\* process_bulk[:MAX_P]
Truncate(process_bulk) ==
    SubSeq(process_bulk, 1, IF Len(process_bulk) < MAX_P THEN Len(process_bulk) ELSE MAX_P)

\* bulk(mode, process_bulk): handle_request(mode, process_bulk[:MAX_P])
bulk(r) ==
    /\ MayRun(r)
    /\ reqs[r].pc = "ready"
    /\ reqs[r].endpoint = "bulk"
    /\ running' = r
    /\ reqs' = [reqs EXCEPT ![r] =
            [@ EXCEPT !.pc = "dispatch",
                      !.process_list =
                          Truncate([i \in DOMAIN reqs[r].body |->
                                        SberProcess(reqs[r].body[i])])]]
    /\ UNCHANGED <<Gcf, figs, bucket, put_calls, uuids, workload, mvars, evars, bvars>>

\* handle_request: handler_class = mode_handlers[mode];
\* handler = handler_class(process_list), up to the call of _plot_sigma
handle_request(r) ==
    /\ MayRun(r)
    /\ reqs[r].pc = "dispatch"
    /\ LET cls == mode_handlers[reqs[r].mode]
       IN  reqs' = [reqs EXCEPT ![r] =
                [@ EXCEPT !.handler = cls,
                          !.pc = IF IsPlotter(cls) THEN "subplots" ELSE "call"]]
    /\ UNCHANGED <<running, Gcf, figs, bucket, put_calls, uuids, workload, mvars, evars, bvars>>

\* ------------------------------------------------------------------------
\* matplotlib.pyplot: the open figures, the current one last
\* ------------------------------------------------------------------------

\* the number plt.figure() gives a new figure
NextNum(open) ==
    IF open = <<>> THEN 1
    ELSE 1 + (CHOOSE n \in {open[i] : i \in DOMAIN open} :
                  \A i \in DOMAIN open : open[i] <= n)

\* the figure numbers without num, in order
RECURSIVE Without(_, _)
Without(open, num) ==
    IF open = <<>> THEN <<>>
    ELSE IF Head(open) = num THEN Without(Tail(open), num)
    ELSE <<Head(open)>> \o Without(Tail(open), num)

\* the figures without num
Destroy(all, num) == [n \in DOMAIN all \ {num} |-> all[n]]

\* the figures with num set to fig
Register(all, num, fig) ==
    [n \in DOMAIN all \cup {num} |-> IF n = num THEN fig ELSE all[n]]

\* np.clip(sigma, xmin, xmax) with xmin, xmax = -3, 6
clip(x) ==
    IF NumLess(x, PyInt(-3)) THEN PyFloat(-3 * P6, 0)
    ELSE IF NumLess(PyInt(6), x) THEN PyFloat(6 * P6, 0)
    ELSE x

\* label.lower()
lower(l) ==
    CASE l = "RED" -> "red" [] l = "YELLOW" -> "yellow" [] l = "GREEN" -> "green"

\* what the loop body draws on one axes from the dump of a process
Panel(dump) ==
    [tests |-> dump.tests.hi, fails |-> dump.fails.hi, name |-> dump.name,
     sigma |-> float(dump.sigma), xfill |-> clip(float(dump.sigma)),
     defect_rate |-> dump.defect_rate, color |-> lower(dump.label.s)]

\* the title of some panel cannot be rendered
Unrenderable(panels) ==
    \E i \in DOMAIN panels :
        panels[i].name.t = "str" /\ panels[i].name.s \in BadMathtext

\* ------------------------------------------------------------------------
\* Plotter.__init__ and Plotter._plot_sigma
\* ------------------------------------------------------------------------

\* the exception leaves _plot_sigma, handle_request and the endpoint
Raise(r, exc) ==
    [reqs EXCEPT ![r] = [@ EXCEPT !.pc = "done", !.response = ServerError(exc)]]

\* fig, ax = plt.subplots(nrows=nrows, ...): plt.figure() opens the figure
\* and makes it current, then fig.subplots() rejects nrows = 0
plt_subplots(r) ==
    /\ MayRun(r)
    /\ reqs[r].pc = "subplots"
    /\ LET nrows == Len(reqs[r].process_list)
           num   == NextNum(Gcf)
           fig   == [owner |-> r, nrows |-> nrows,
                     dpi |-> IF nrows = 1 THEN DPI_SINGLE ELSE DPI_BULK,
                     panels |-> <<>>]
       IN  /\ Gcf' = Append(Gcf, num)
           /\ figs' = Register(figs, num, fig)
           /\ IF nrows = 0
              THEN /\ reqs' = Raise(r, "ValueError")
                   /\ running' = 0
              ELSE /\ reqs' = [reqs EXCEPT ![r] = [@ EXCEPT !.pc = "draw", !.fig = num]]
                   /\ UNCHANGED running
    /\ UNCHANGED <<bucket, put_calls, uuids, workload, mvars, evars, bvars>>

\* the loop over self.process_list: every dump is appended and its panel
\* is drawn on the next axes of the figure subplots returned
draw(r) ==
    /\ MayRun(r)
    /\ reqs[r].pc = "draw"
    /\ LET pl    == reqs[r].process_list
           dumps == [i \in DOMAIN pl |-> model_dump(pl[i])]
       IN  /\ reqs' = [reqs EXCEPT ![r] =
                    [@ EXCEPT !.dumps = @ \o dumps,
                              !.process_list =
                                  [i \in DOMAIN pl |->
                                      GetLabel(GetSigma(GetDefectRate(pl[i])))],
                              !.pc = "savefig"]]
           /\ figs' = [figs EXCEPT ![reqs[r].fig] =
                    [@ EXCEPT !.panels =
                        @ \o [i \in DOMAIN dumps |-> Panel(dumps[i])]]]
    /\ UNCHANGED <<running, Gcf, bucket, put_calls, uuids, workload, mvars, evars, bvars>>

\* plt.savefig(self.buffer, ...): the current figure is rendered into the
\* buffer; gcf() opens a figure when none is open
plt_savefig(r) ==
    /\ MayRun(r)
    /\ reqs[r].pc = "savefig"
    /\ LET fresh   == [owner |-> 0, nrows |-> 0, dpi |-> 0, panels |-> <<>>]
           open    == IF Gcf = <<>> THEN <<1>> ELSE Gcf
           all     == IF Gcf = <<>> THEN Register(figs, 1, fresh) ELSE figs
           current == open[Len(open)]
       IN  /\ Gcf' = open
           /\ figs' = all
           /\ IF Unrenderable(all[current].panels)
              THEN /\ reqs' = Raise(r, "ValueError")
                   /\ running' = 0
              ELSE /\ reqs' = [reqs EXCEPT ![r] =
                           [@ EXCEPT !.pc = "close",
                                     !.buffer = [written |-> TRUE, fig |-> current,
                                                 owner |-> all[current].owner,
                                                 panels |-> all[current].panels]]]
                   /\ UNCHANGED running
    /\ UNCHANGED <<bucket, put_calls, uuids, workload, mvars, evars, bvars>>

\* self.buffer.seek(0); plt.close(fig)
plt_close(r) ==
    /\ MayRun(r)
    /\ reqs[r].pc = "close"
    /\ Gcf' = Without(Gcf, reqs[r].fig)
    /\ figs' = Destroy(figs, reqs[r].fig)
    /\ reqs' = [reqs EXCEPT ![r] = [@ EXCEPT !.pc = "call"]]
    /\ UNCHANGED <<running, bucket, put_calls, uuids, workload, mvars, evars, bvars>>

\* ------------------------------------------------------------------------
\* handler.handle_request()
\* ------------------------------------------------------------------------

\* env("BUCKET")
BUCKET == "BUCKET"

\* Slacker.handle_request: return self.process_list
SlackerResult(self) ==
    [NoResult EXCEPT !.kind = "list", !.records = self.process_list]

\* Plotter.handle_request: the Response with the image as content and the
\* dumps in the Process-List header
PlotterResult(self) ==
    [NoResult EXCEPT !.kind = "Response", !.keys = {"Content-Disposition", "Process-List"},
                     !.image = self.buffer, !.dumps = json_dumps(self.dumps),
                     !.media_type = "image/png"]

\* Uploader.handle_request: the dict returned after both uploads
UploaderResult(self) ==
    [NoResult EXCEPT !.kind = "dict", !.keys = {"bucket", "folder", "process_list"},
                     !.bucket = BUCKET, !.folder = self.folder, !.dumps = self.dumps]

\* the two objects put under a folder each
PutArgs_two_folders(self) ==
    << [Bucket |-> BUCKET, folder |-> self.folder, file |-> "plot.png",
        ContentType |-> "image/png", image |-> self.buffer, json |-> <<>>],
       [Bucket |-> BUCKET, folder |-> self.folder + 1, file |-> "process_list.json",
        ContentType |-> "application/json", image |-> NoImage,
        json |-> json_dumps(self.dumps)] >>

\* the two objects Uploader.handle_request puts, in the order of the calls
PutArgs(self) ==
    << [Bucket |-> BUCKET, folder |-> self.folder, file |-> "plot.png",
        ContentType |-> "image/png", image |-> self.buffer, json |-> <<>>],
       [Bucket |-> BUCKET, folder |-> self.folder, file |-> "process_list.json",
        ContentType |-> "application/json", image |-> NoImage,
        json |-> json_dumps(self.dumps)] >>

\* handler.handle_request() of Slacker and Plotter
call(r) ==
    /\ MayRun(r)
    /\ reqs[r].pc = "call"
    /\ reqs[r].handler \in {"Slacker", "Plotter"}
    /\ reqs' = [reqs EXCEPT ![r] =
            [@ EXCEPT !.pc = "await",
                      !.returned = IF reqs[r].handler = "Slacker"
                                   THEN SlackerResult(reqs[r])
                                   ELSE PlotterResult(reqs[r])]]
    /\ UNCHANGED <<running, Gcf, figs, bucket, put_calls, uuids, workload, mvars, evars, bvars>>

\* Uploader.handle_request up to the first upload: the session, the client,
\* folder = str(uuid4()), bucket = env("BUCKET")
uuid4(r) ==
    /\ MayRun(r)
    /\ reqs[r].pc = "call"
    /\ reqs[r].handler = "Uploader"
    /\ uuids' = uuids + 1
    /\ reqs' = [reqs EXCEPT ![r] = [@ EXCEPT !.pc = "put_png", !.folder = uuids + 1]]
    /\ UNCHANGED <<running, Gcf, figs, bucket, put_calls, workload, mvars, evars, bvars>>

\* put_object with the exception of the storage swallowed
put_object_swallow(r, n, ok) ==
    /\ MayRun(r)
    /\ reqs[r].pc = (IF n = 1 THEN "put_png" ELSE "put_json")
    /\ LET args == PutArgs(reqs[r])[n]
       IN  /\ put_calls' = Append(put_calls, [req |-> r, file |-> args.file,
                                               folder |-> args.folder, ok |-> ok])
           /\ bucket' = IF ok THEN bucket \cup {args} ELSE bucket
    /\ reqs' = [reqs EXCEPT ![r] =
            [@ EXCEPT !.pc = IF n = 1 THEN "put_json" ELSE "await",
                      !.returned = IF n = 1 THEN NoResult
                                   ELSE UploaderResult(reqs[r])]]
    /\ UNCHANGED <<running, Gcf, figs, uuids, workload, mvars, evars, bvars>>

\* client.put_object(...) number n of the handler; the storage answers or
\* raises
put_object(r, n, ok) ==
    /\ MayRun(r)
    /\ reqs[r].pc = (IF n = 1 THEN "put_png" ELSE "put_json")
    /\ LET args == PutArgs(reqs[r])[n]
       IN  /\ put_calls' = Append(put_calls, [req |-> r, file |-> args.file,
                                               folder |-> args.folder, ok |-> ok])
           /\ bucket' = IF ok THEN bucket \cup {args} ELSE bucket
    /\ IF ok
       THEN /\ reqs' = [reqs EXCEPT ![r] =
                    [@ EXCEPT !.pc = IF n = 1 THEN "put_json" ELSE "await",
                              !.returned = IF n = 1 THEN NoResult
                                           ELSE UploaderResult(reqs[r])]]
            /\ UNCHANGED running
       ELSE /\ reqs' = Raise(r, "ClientError")
            /\ running' = 0
    /\ UNCHANGED <<Gcf, figs, uuids, workload, mvars, evars, bvars>>

\* the value of "await x" in a coroutine: x itself is not awaitable unless
\* it is a coroutine, and none of the handlers' handle_request is one
Await(x) ==
    IF x.kind \in {"list", "Response", "dict"}
    THEN [raised |-> TRUE, exc |-> "TypeError", value |-> NoResult]
    ELSE [raised |-> FALSE, exc |-> "", value |-> x]

\* handle_request: return await handler.handle_request()
await(r) ==
    /\ MayRun(r)
    /\ reqs[r].pc = "await"
    /\ LET a == Await(reqs[r].returned)
       IN  reqs' = [reqs EXCEPT ![r] =
                [@ EXCEPT !.pc = "done",
                          !.result = a.value,
                          !.response = IF a.raised THEN ServerError(a.exc)
                                       ELSE [status |-> 200, kind |-> "ok",
                                             detail |-> "", fields |-> <<>>]]]
    /\ running' = 0
    /\ UNCHANGED <<Gcf, figs, bucket, put_calls, uuids, workload, mvars, evars, bvars>>

ServiceNext ==
    \E r \in Requests :
        \/ \E endpoint \in {"single", "bulk"}, mode \in Mode,
              body \in Bodies("concurrent") \cup Bodies("bulk") :
              Receive(r, endpoint, mode, body)
        \/ single(r)
        \/ bulk(r)
        \/ handle_request(r)
        \/ plt_subplots(r)
        \/ draw(r)
        \/ plt_savefig(r)
        \/ plt_close(r)
        \/ call(r)
        \/ uuid4(r)
        \/ \E n \in {1, 2}, ok \in BOOLEAN : put_object(r, n, ok)
        \/ await(r)

\* ------------------------------------------------------------------------
\* app/tools.py: EqMixin and ComparableDump
\* ------------------------------------------------------------------------

\* the fields of the dataclass in the order of self.__dict__
ComparableDumpFields == <<"tests", "fails", "defect_rate", "sigma", "label", "name">>

\* ComparableDump(**dump)
ComparableDump(dump) ==
    [cls |-> "ComparableDump", tests |-> dump.tests, fails |-> dump.fails,
     defect_rate |-> dump.defect_rate, sigma |-> dump.sigma,
     label |-> dump.label, name |-> dump.name]

NoDump ==
    [cls |-> "none", tests |-> PyNone, fails |-> PyNone, defect_rate |-> PyNone,
     sigma |-> PyNone, label |-> PyNone, name |-> PyNone]

IsNumber(v) == v.t \in {"int", "float"}

\* a == b of two Python values
operator_eq(a, b) ==
    CASE a.t = "int" /\ b.t = "int"     -> a.hi = b.hi
      [] a.t = "float" /\ b.t = "float" -> a.inf = b.inf /\ a.hi = b.hi /\ a.lo = b.lo
      [] a.t = "int" /\ b.t = "float"   ->
            b.inf = 0 /\ b.lo = 0 /\ b.hi % P6 = 0 /\ b.hi \div P6 = a.hi
      [] a.t = "float" /\ b.t = "int"   ->
            a.inf = 0 /\ a.lo = 0 /\ a.hi % P6 = 0 /\ a.hi \div P6 = b.hi
      [] a.t = "str" /\ b.t = "str"     -> a.s = b.s
      [] a.t = "NoneType" /\ b.t = "NoneType" -> TRUE
      [] OTHER -> FALSE

\* the hi part of a number as a float
HiOf(v) == IF v.t = "int" THEN v.hi * P6 ELSE v.hi

\* the whole lo units of |v| * 10^-9: the tolerance |v| contributes
RelTol(v) ==
    IF HiOf(v) >= 0 THEN HiOf(v)
    ELSE (0 - HiOf(v)) - (IF v.lo > 0 THEN 1 ELSE 0)

\* math.isclose(a, b) of two numbers, with rel_tol = 1e-09 and abs_tol = 0.0
math_isclose(a, b) ==
    IF operator_eq(a, b) THEN TRUE
    ELSE IF a.inf # 0 \/ b.inf # 0 THEN FALSE
    ELSE LET dh == HiOf(a) - HiOf(b)
         IN  IF dh > 1 \/ dh < -1 THEN FALSE
             ELSE LET d    == dh * P9 + (a.lo - b.lo)
                      diff == IF d < 0 THEN 0 - d ELSE d
                  IN  diff <= RelTol(a) \/ diff <= RelTol(b)

\* the testers with the floats compared like the other types
testers_exact ==
    [t \in {"str", "int", "NoneType", "float"} |-> "operator.eq"]

\* EqMixin.testers
testers ==
    [t \in {"str", "int", "NoneType", "float"} |->
        IF t = "float" THEN "math.isclose" ELSE "operator.eq"]

\* self.__class__.testers[type(v)](v, w): "True", "False", or the exception
\* raised
Test(v, w) ==
    IF v.t \notin DOMAIN testers THEN "KeyError"
    ELSE IF testers[v.t] = "operator.eq"
         THEN IF operator_eq(v, w) THEN "True" ELSE "False"
         ELSE IF ~IsNumber(w) THEN "TypeError"
              ELSE IF math_isclose(v, w) THEN "True" ELSE "False"

\* all(...) over the fields from position i on: it stops at the first
\* field that does not match
RECURSIVE AllFields(_, _, _)
AllFields(self, other, i) ==
    IF i > Len(ComparableDumpFields) THEN "True"
    ELSE LET k == ComparableDumpFields[i]
             t == Test(self[k], other[k])
         IN  IF t = "True" THEN AllFields(self, other, i + 1) ELSE t

\* EqMixin.__eq__(self, other)
EqMixin__eq__(self, other) ==
    IF other.cls = self.cls THEN AllFields(self, other, 1) ELSE "NotImplemented"

\* ------------------------------------------------------------------------
\* Comparison of the dump a response carries with an expected dump
\* ------------------------------------------------------------------------

\* the float d lo units above x, for 0 <= d < 10^9
Shift(x, d) == PyFloat(x.hi + ((x.lo + d) \div P9), (x.lo + d) % P9)

\* the expected dumps an actual dump is compared with: the dump itself and
\* the dump with one field changed
Expected(a) ==
    { a,
      [a EXCEPT !.name = PyStr("another name")],
      [a EXCEPT !.name = IF a.name = PyNone THEN PyStr("a") ELSE PyNone],
      [a EXCEPT !.label = PyStr(IF a.label.s = "RED" THEN "YELLOW" ELSE "RED")],
      [a EXCEPT !.tests = PyInt(a.tests.hi + 1)],
      [a EXCEPT !.fails = PyInt(a.fails.hi + 1)],
      [a EXCEPT !.defect_rate = Shift(a.defect_rate, 1)],
      [a EXCEPT !.defect_rate = Shift(a.defect_rate, 1000000)],
      [a EXCEPT !.defect_rate = PyInt(a.defect_rate.hi \div P6)],
      [a EXCEPT !.sigma = PyStr("inf")],
      [a EXCEPT !.sigma = PyStr("-inf")],
      [a EXCEPT !.sigma = PyFloat(1500000, 0)],
      [a EXCEPT !.cls = "dict"] }
        \cup (IF a.sigma.t = "float"
              THEN { [a EXCEPT !.sigma = Shift(a.sigma, 1)],
                     [a EXCEPT !.sigma = Shift(a.sigma, RelTol(a.sigma))],
                     [a EXCEPT !.sigma = Shift(a.sigma, RelTol(a.sigma) + 2)],
                     [a EXCEPT !.sigma = Shift(a.sigma, 10000000)] }
              ELSE {})

\* the response of a plot request of one process arrives:
\* ComparableDump(**actual) of json.loads(response.headers["Process-List"])
ActualDump(tests, fails, name) ==
    /\ eself = NoDump
    /\ Validate(RawProcess(tests, fails, name)).status = 200
    /\ LET header == json_dumps(<<model_dump(SberProcess(RawProcess(tests, fails, name)))>>)
       IN  eself' = ComparableDump(json_loads(header)[1])
    /\ UNCHANGED <<eother, eresult, svars, mvars, bvars>>

\* ComparableDump(**actual) == expected
Compare(expected) ==
    /\ eself # NoDump
    /\ eresult = "none"
    /\ expected \in Expected(eself)
    /\ eother' = expected
    /\ eresult' = EqMixin__eq__(eself, expected)
    /\ UNCHANGED <<eself, svars, mvars, bvars>>

EqNext ==
    \/ \E tests \in TestsValues, fails \in FailsValues, name \in NameValues :
          ActualDump(tests, fails, name)
    \/ \E expected \in Expected(eself) : Compare(expected)

\* ------------------------------------------------------------------------
\* app/main.py: the mode registry, built when the module is imported
\* ------------------------------------------------------------------------

\* an object bound to a name of a module: the name, whether it is a class,
\* the names of the classes of its __mro__ ({} for a non-class) and the
\* value of its attribute mode ("" where the comprehension never reads it)
Object(name, isclass, mro, mode) ==
    [name |-> name, isclass |-> isclass, mro |-> mro, mode |-> mode]

\* a class class <name>(Handler) that declares mode = <mode>
Variant(name, mode) == Object(name, TRUE, {name, "Handler", "ABC", "object"}, mode)

\* the namespace of app/tools.py as the repository has it: its classes,
\* and of the other names a constant, an instance and a module
ToolsModule ==
    { Object("ABC", TRUE, {"ABC", "object"}, ""),
      Object("ComparableDump", TRUE, {"ComparableDump", "EqMixin", "object"}, ""),
      Object("Config", TRUE, {"Config", "object"}, ""),
      Object("DPI_BULK", FALSE, {}, ""),
      Object("EqMixin", TRUE, {"EqMixin", "object"}, ""),
      Object("FormatStrFormatter", TRUE, {"FormatStrFormatter", "Formatter", "object"}, ""),
      Object("Handler", TRUE, {"Handler", "ABC", "object"}, ""),
      Object("NoneType", TRUE, {"NoneType", "object"}, ""),
      Variant("Plotter", "plot"),
      Object("Response", TRUE, {"Response", "object"}, ""),
      Variant("Slacker", "data"),
      Object("Uploader", TRUE, {"Uploader", "Plotter", "Handler", "ABC", "object"}, "obs"),
      Object("norm", FALSE, {}, ""),
      Object("plt", FALSE, {}, "") }

\* the names a further handler class of tools.py may take, and the modes it
\* may declare
VariantNames == {"Archiver", "Zipper"}

VariantModes == {"data", "plot", "obs", "zip"}

\* the namespaces of tools.py with further handler classes: a name binds
\* one object
Namespaces ==
    { ToolsModule \cup added :
        added \in { S \in SUBSET { Variant(n, m) : n \in VariantNames, m \in VariantModes } :
                      \A a, b \in S : a.name = b.name => a = b } }

\* the names of all the objects above in the order of Python's str <
NameOrder ==
    << "ABC", "Archiver", "ComparableDump", "Config", "DPI_BULK", "EqMixin",
       "FormatStrFormatter", "Handler", "NoneType", "Plotter", "Response",
       "Slacker", "Uploader", "Zipper", "norm", "plt" >>

\* inspect.getmembers(module): the members sorted by name
RECURSIVE getmembers_from(_, _)
getmembers_from(module, i) ==
    IF i > Len(NameOrder) THEN <<>>
    ELSE LET here == { o \in module : o.name = NameOrder[i] }
         IN  (IF here = {} THEN <<>> ELSE << CHOOSE o \in here : TRUE >>)
                 \o getmembers_from(module, i + 1)

getmembers(module) == getmembers_from(module, 1)

\* predicate: inspect.isclass(obj) and obj is not tools.Handler
\* and issubclass(obj, tools.Handler)
predicate(obj) ==
    /\ obj.isclass
    /\ obj.name # "Handler"
    /\ "Handler" \in obj.mro

\* d[key] = value on a dict kept as its items in insertion order: a key
\* already present keeps its place and takes the new value
setitem(d, key, value) ==
    IF \E i \in DOMAIN d : d[i].key = key
    THEN [i \in DOMAIN d |-> IF d[i].key = key THEN [key |-> key, value |-> value] ELSE d[i]]
    ELSE Append(d, [key |-> key, value |-> value])

\* tuple(d): the keys in insertion order
keys(d) == [i \in DOMAIN d |-> d[i].key]

\* {obj.mode: obj for _, obj in seq[i:] if predicate(obj)} continued from d
RECURSIVE comprehension(_, _, _)
comprehension(seq, i, d) ==
    IF i > Len(seq) THEN d
    ELSE comprehension(seq, i + 1,
             IF predicate(seq[i]) THEN setitem(d, seq[i].mode, seq[i].name) ELSE d)

\* the state of a process that imported main.py with the namespace module
Booted(module) ==
    /\ tools = module
    /\ members = getmembers(module)
    /\ cursor = Len(getmembers(module)) + 1
    /\ registry = comprehension(getmembers(module), 1, <<>>)
    /\ ModeArgs = keys(comprehension(getmembers(module), 1, <<>>))
    /\ boot = "serving"

\* the process starts: tools.py is imported, main.py not yet at line 96
StartupInit ==
    /\ tools \in Namespaces
    /\ members = <<>>
    /\ cursor = 1
    /\ registry = <<>>
    /\ ModeArgs = <<>>
    /\ boot = "import"

\* inspect.getmembers(tools)
GetMembers ==
    /\ boot = "import"
    /\ members' = getmembers(tools)
    /\ boot' = "comprehension"
    /\ UNCHANGED <<tools, cursor, registry, ModeArgs, svars, mvars, evars>>

\* one iteration of the comprehension: obj.mode: obj if predicate(obj)
Comprehend ==
    /\ boot = "comprehension"
    /\ cursor <= Len(members)
    /\ registry' = IF predicate(members[cursor])
                   THEN setitem(registry, members[cursor].mode, members[cursor].name)
                   ELSE registry
    /\ cursor' = cursor + 1
    /\ UNCHANGED <<tools, members, ModeArgs, boot, svars, mvars, evars>>

\* Mode = Literal[tuple(mode_handlers)]: the registry is complete and the
\* application starts to serve
Literal ==
    /\ boot = "comprehension"
    /\ cursor > Len(members)
    /\ ModeArgs' = keys(registry)
    /\ boot' = "serving"
    /\ UNCHANGED <<tools, members, cursor, registry, svars, mvars, evars>>

StartupNext ==
    \/ GetMembers
    \/ Comprehend
    \/ Literal

\* ------------------------------------------------------------------------
\* Specifications
\* ------------------------------------------------------------------------

EqInit ==
    /\ eself = NoDump
    /\ eother = NoDump
    /\ eresult = "none"

Init ==
    /\ ServiceInit
    /\ workload \in {"concurrent", "bulk"}
    /\ MetricsInit
    /\ EqInit
    /\ Booted(ToolsModule)

Next == ServiceNext

Spec == Init /\ [][Next]_vars

InitMetrics ==
    /\ ServiceInit
    /\ workload = "none"
    /\ MetricsInit
    /\ EqInit
    /\ Booted(ToolsModule)

SpecMetrics == InitMetrics /\ [][MetricsNext]_vars

SpecEq == InitMetrics /\ [][EqNext]_vars

InitStartup ==
    /\ ServiceInit
    /\ workload = "none"
    /\ MetricsInit
    /\ EqInit
    /\ StartupInit

SpecStartup == InitStartup /\ [][StartupNext]_vars

\* ------------------------------------------------------------------------
\* Properties of the metrics
\* ------------------------------------------------------------------------

\* C1: the label of every valid record is decided by its sigma alone:
\* below 2.1 (the sentinel "-inf" included) it is RED, from 2.1 up to but
\* not including 4.1 it is YELLOW, from 4.1 on (the sentinel "inf"
\* included) it is GREEN.
C1_LabelBands ==
    (mstage = "built" /\ mproc.label # Unset) =>
        LET s       == mproc.sigma
            minus   == s = PyStr("-inf")
            plus    == s = PyStr("inf")
            finite  == s.t = "float" /\ s.inf = 0
            below21 == minus \/ (finite /\ s.hi < 2100000)
            below41 == minus \/ (finite /\ s.hi < 4100000)
        IN  /\ minus \/ plus \/ finite
            /\ below21 => mproc.label = PyStr("RED")
            /\ (~below21 /\ below41) => mproc.label = PyStr("YELLOW")
            /\ ~below41 => mproc.label = PyStr("GREEN")

\* the record of 274253 fails in a million tests got its label: sigma is
\* just above 2.1
C1_Witness ==
    /\ mstage = "built"
    /\ mproc.tests = 1000000 /\ mproc.fails = 274253
    /\ mproc.sigma = PyFloat(2100000, 353365522)
    /\ mproc.label = PyStr("YELLOW")

\* C2: a valid record without fails has the sigma "inf" and a valid record
\* of which every test failed has the sigma "-inf"; sigma is one of the two
\* strings there, and never an infinite float.
C2_Sentinels ==
    (mstage = "built" /\ mproc.sigma # Unset) =>
        /\ (mproc.fails = 0 \/ mproc.defect_rate = PyFloat(0, 0))
              => mproc.sigma = PyStr("inf")
        /\ (mproc.fails = mproc.tests \/ mproc.defect_rate = PyFloat(P6, 0))
              => mproc.sigma = PyStr("-inf")
        /\ ~isinf(mproc.sigma)

\* a record of which every test failed got its sigma
C2_Witness ==
    /\ mstage = "built"
    /\ mproc.fails = mproc.tests
    /\ mproc.defect_rate = PyFloat(P6, 0)
    /\ mproc.sigma = PyStr("-inf")

\* ------------------------------------------------------------------------
\* Properties of the service
\* ------------------------------------------------------------------------

TooManyFails(raw) == raw.fails > raw.tests

FieldsValid(raw) == raw.tests > 0 /\ raw.fails >= 0

\* the request was turned down before its endpoint ran: no instance was
\* kept, no metric computed, no handler constructed
TurnedDown(q) ==
    /\ q.pc = "done"
    /\ q.response.status = 422
    /\ q.handler = "none"
    /\ q.process_list = <<>>
    /\ q.dumps = <<>>
    /\ q.returned = NoResult

SingleMessage(q) ==
    /\ q.response.kind = "HTTPException"
    /\ q.response.detail =
          "The number of fails can't be greater than the total number of tests"
    /\ q.response.fields = <<>>

\* C3 as stated: a request with a record of fails > tests is turned down
\* with the single descriptive 422 message, whatever else the record holds.
C3_Original ==
    \A r \in Requests :
        (reqs[r].pc # "idle" /\ \E i \in DOMAIN reqs[r].body : TooManyFails(reqs[r].body[i]))
            => TurnedDown(reqs[r]) /\ SingleMessage(reqs[r])

\* C3: a request with a record of fails > tests is always turned down with
\* status 422, whatever the name is, before any metric is computed or any
\* handler constructed; the error is the single descriptive message when
\* such a record passes the validation of its fields (tests > 0 and
\* fails >= 0), and the per-field error list when none does.
C3_Amended ==
    \A r \in Requests :
        LET q == reqs[r]
        IN  (q.pc # "idle" /\ \E i \in DOMAIN q.body : TooManyFails(q.body[i]))
                => /\ TurnedDown(q)
                   /\ IF \E i \in DOMAIN q.body :
                            TooManyFails(q.body[i]) /\ FieldsValid(q.body[i])
                      THEN SingleMessage(q)
                      ELSE /\ q.response.kind = "RequestValidationError"
                           /\ q.response.fields # <<>>

\* a named record of 51 fails in 50 tests was turned down with the message
C3_Witness ==
    \E r \in Requests :
        /\ reqs[r].pc = "done"
        /\ \E i \in DOMAIN reqs[r].body :
              /\ TooManyFails(reqs[r].body[i])
              /\ reqs[r].body[i].name = PyStr("a")
        /\ SingleMessage(reqs[r])

\* the handler of the request has run the loop of _plot_sigma
Plotted(q) == IsPlotter(q.handler) /\ q.pc \notin {"subplots", "draw"}

\* C4: the dumps of a bulk request of N valid records in mode plot or obs
\* are min(N, MAX_P) many, and dump i is the dump of record i of the
\* request: the first MAX_P records in the order sent.
C4_BulkDumps ==
    \A r \in Requests :
        LET q == reqs[r]
            n == IF Len(q.body) < MAX_P THEN Len(q.body) ELSE MAX_P
        IN  (q.endpoint = "bulk" /\ Plotted(q))
                => /\ Len(q.dumps) = n
                   /\ \A i \in 1..n :
                         /\ q.dumps[i] = model_dump(SberProcess(q.body[i]))
                         /\ q.dumps[i].tests = PyInt(q.body[i].tests)
                         /\ q.dumps[i].fails = PyInt(q.body[i].fails)
                         /\ q.dumps[i].name = q.body[i].name

\* a bulk request of more than MAX_P records was plotted
C4_Witness ==
    \E r \in Requests :
        /\ reqs[r].endpoint = "bulk"
        /\ Plotted(reqs[r])
        /\ Len(reqs[r].body) > MAX_P
        /\ Len(reqs[r].dumps) = MAX_P
        /\ reqs[r].dumps[MAX_P].name = PyStr("10")

\* C5: when the operation of the handler has returned, the dispatch hands
\* that very result to its caller, and the request succeeds; in mode data
\* the result is the list of records the handler was given.
C5_Dispatch ==
    \A r \in Requests :
        LET q == reqs[r]
        IN  (q.pc = "done" /\ q.returned # NoResult)
                => /\ q.result = q.returned
                   /\ q.response.status = 200
                   /\ q.mode = "data" =>
                         q.result.kind = "list" /\ q.result.records = q.process_list

\* the put_object calls of request r, in order
CallsOf(r) == SelectSeq(put_calls, LAMBDA c : c.req = r)

\* the objects of a folder
ObjectsIn(folder) == {o \in bucket : o.folder = folder}

\* Uploader.handle_request of the request has returned its dict
Persisted(q) == q.handler = "Uploader" /\ q.returned.kind = "dict"

\* what C6 says of one persisted request but for the keys of the result:
\* one folder, two objects under it in the bucket, the image as image/png
\* and the dumps as application/json, and the result names that bucket,
\* that folder and the dumps that were uploaded
PersistedAsOne(r) ==
    LET q == reqs[r]
    IN  /\ q.returned.folder = q.folder
        /\ q.returned.bucket = BUCKET
        /\ q.returned.dumps = q.dumps
        /\ Cardinality(ObjectsIn(q.folder)) = 2
        /\ \A o \in ObjectsIn(q.folder) : o.Bucket = q.returned.bucket
        /\ \E o \in ObjectsIn(q.folder) :
              /\ o.file = "plot.png"
              /\ o.ContentType = "image/png"
              /\ o.image = q.buffer
              /\ o.image.written
        /\ \E o \in ObjectsIn(q.folder) :
              /\ o.file = "process_list.json"
              /\ o.ContentType = "application/json"
              /\ json_loads(o.json) = q.returned.dumps
        /\ Len(CallsOf(r)) = 2
        /\ \A p \in Requests \ {r} :
              reqs[p].handler = "Uploader" /\ reqs[p].folder # 0
                  => reqs[p].folder # q.folder

C7_UploadFailure ==
    \A r \in Requests :
        LET q     == reqs[r]
            calls == CallsOf(r)
        IN  /\ Len(calls) <= 2
            /\ Len(calls) >= 1 => calls[1].file = "plot.png"
            /\ Len(calls) = 2 =>
                  calls[1].ok /\ calls[2].file = "process_list.json"
            /\ (\E i \in DOMAIN calls : ~calls[i].ok)
                  => /\ ~calls[Len(calls)].ok
                     /\ q.pc = "done"
                     /\ q.response = ServerError("ClientError")
                     /\ q.returned = NoResult
                     /\ q.result = NoResult
                     /\ Len(calls) = 2 =>
                           \E o \in ObjectsIn(q.folder) : o.file = "plot.png"
                     /\ ~\E o \in ObjectsIn(q.folder) : o.file = "process_list.json"

\* the upload of the dumps failed after the image was stored
C7_Witness ==
    \E r \in Requests :
        /\ Len(CallsOf(r)) = 2
        /\ ~CallsOf(r)[2].ok
        /\ reqs[r].pc = "done"
        /\ \E o \in bucket : o.folder = reqs[r].folder /\ o.file = "plot.png"

\* C9: whenever no render is in progress, no figure is open: every figure
\* a render opened was closed before its handler was left, also when the
\* render raised.
C9_FigureClosed ==
    (\A r \in Requests : reqs[r].pc \notin {"draw", "savefig", "close"})
        => Gcf = <<>>

\* C10: the image a request saved is the rendering of the figure that
\* request created, with the panels of its own records and no other; from
\* the creation of its figure to its savefig, its figure is the current one.
C10_OwnFigure ==
    \A r \in Requests :
        LET q == reqs[r]
        IN  /\ q.pc \in {"draw", "savefig"} => Gcf # <<>> /\ Gcf[Len(Gcf)] = q.fig
            /\ q.buffer.written
                  => /\ q.buffer.owner = r
                     /\ q.buffer.fig = q.fig
                     /\ q.buffer.panels = [i \in DOMAIN q.dumps |-> Panel(q.dumps[i])]
                     /\ Len(q.buffer.panels) = Len(q.process_list)

\* two requests have each saved an image, of different panels
C10_Witness ==
    \E r, p \in Requests :
        /\ r # p
        /\ reqs[r].buffer.written /\ reqs[p].buffer.written
        /\ reqs[r].buffer.panels # reqs[p].buffer.panels

\* ------------------------------------------------------------------------
\* Properties of the equality
\* ------------------------------------------------------------------------

\* a float field as an extended real: the sentinels stand for the infinities
AsReal(v) == IF v.t = "str" /\ v.s \in {"inf", "-inf"} THEN float(v) ELSE v

\* two values of a float field agree within the tolerance
Approx(v, w) ==
    /\ IsNumber(AsReal(v)) /\ IsNumber(AsReal(w))
    /\ math_isclose(AsReal(v), AsReal(w))

\* every field of the two dumps matches under the rule of its kind
DeclaredMatch(a, b) ==
    /\ a.tests = b.tests
    /\ a.fails = b.fails
    /\ a.label = b.label
    /\ a.name = b.name
    /\ Approx(a.defect_rate, b.defect_rate)
    /\ Approx(a.sigma, b.sigma)

Variants == { o \in tools : predicate(o) }

\* two variants of the namespace declare the same mode identifier
DuplicateMode == \E a, b \in Variants : a # b /\ a.mode = b.mode

\* the items of the registry that hold the variant
ItemsOf(variant) ==
    { i \in DOMAIN registry :
        registry[i].key = variant.mode /\ registry[i].value = variant.name }

\* C11: the registry the application serves with holds every handler
\* variant exactly once, under the mode it declares, and a namespace in
\* which two variants declare the same mode identifier never gets to serve:
\* its startup ends in an error instead of one variant replacing the other.
C11_Registry ==
    /\ boot = "serving" => \A v \in Variants : Cardinality(ItemsOf(v)) = 1
    /\ DuplicateMode => boot # "serving"

====
